---- MODULE Spec2Model ----
(***************************************************************************)
(* Metadata calculator helpers (metadata_calculator/helpers.rs):           *)
(*   - AsyncTree, the handle that owns the Merkle tree and offloads its    *)
(*     mutations to blocking workers;                                      *)
(*   - L1BatchWithLogs::new, the deduplicating loader of a batch's storage *)
(*     logs, and L1BatchWithLogs::slow, its naive reference;               *)
(*   - the log store and the tree they talk to, at their interface.        *)
(***************************************************************************)
EXTENDS Integers, Sequences, FiniteSets, TLC

\* ------------------------------------------------------------------ bounds
NumKeys == 2          \* storage keys 1..NumKeys
MaxValue == 1         \* slot values 0..MaxValue; 0 is H256::zero()
MaxBatch == 2         \* highest L1 batch number that is sealed or applied
MaxWorkers == 2       \* blocking tasks alive at the same time
MaxQueued == 1        \* observations waiting in the Delayer's channel
LastBatch == 5        \* revert scenario: batches 0 (genesis)..LastBatch are applied
KeepBatch == 3        \* revert scenario: the batch reverted to

\* ------------------------------------------------------------- basic data
StorageKeys == 1..NumKeys
Values == 0..MaxValue
BatchNumbers == 0..MaxBatch

\* Option<T>: None is the empty sequence, Some(x) the one-element sequence.
None == <<>>
Some(x) == <<x>>
IsSome(o) == o # <<>>
Unwrap(o) == o[1]

\* StorageKey::hashed_key: injective, and not monotone in the key's own order.
HashedKey(k) == NumKeys + 1 - k
HashedKeys == {HashedKey(k) : k \in StorageKeys}

\* H256::is_zero
IsZero(value) == value = 0

\* StorageLog::new_read_log / new_write_log
NewReadLog(key, value) == [key |-> key, value |-> value, kind |-> "Read"]
NewWriteLog(key, value) == [key |-> key, value |-> value, kind |-> "Write"]

\* All iteration orders of a finite set (a HashSet / HashMap iterates in an
\* unspecified order).
Orders(S) ==
    {s \in [1..Cardinality(S) -> S] : \A i, j \in 1..Cardinality(S) : s[i] = s[j] => i = j}

\* The smallest element of a non-empty set of integers.
MinOf(S) == CHOOSE x \in S : \A y \in S : x <= y

\* BTreeMap::into_values().collect(): the values in ascending order of the key
\* (StorageKey's own Ord).
RECURSIVE IntoValuesByHashedKey(_)
IntoValuesByHashedKey(map) ==
    IF DOMAIN map = {} THEN <<>>
    ELSE LET k == CHOOSE x \in DOMAIN map :
                      \A y \in DOMAIN map : HashedKey(x) <= HashedKey(y)
         IN <<map[k]>> \o IntoValuesByHashedKey([x \in (DOMAIN map) \ {k} |-> map[x]])

RECURSIVE IntoValues(_)
IntoValues(map) ==
    IF DOMAIN map = {} THEN <<>>
    ELSE LET k == MinOf(DOMAIN map)
         IN <<map[k]>> \o IntoValues([x \in (DOMAIN map) \ {k} |-> map[x]])

\* BTreeMap::insert / HashMap::remove on maps held as functions.
MapInsertAsPush(map, k, v) ==
    [x \in (DOMAIN map) \cup {Cardinality(DOMAIN map) + 1} |->
        IF x = Cardinality(DOMAIN map) + 1 THEN v ELSE map[x]]

MapInsert(map, k, v) == [x \in (DOMAIN map) \cup {k} |-> IF x = k THEN v ELSE map[x]]
MapRemove(map, k) == [x \in (DOMAIN map) \ {k} |-> map[x]]
EmptyMap == [x \in {} |-> 0]

VARIABLES
    \* --- AsyncTree and the tasks around it
    handle,       \* AsyncTree.0 : Option<ZkSyncTree>
    rocksdb,      \* the backing store: the persisted tree versions
    workers,      \* the blocking pool: worker id -> task (or Free)
    caller,       \* the driver task: its position and the call it is in
    outcome,      \* how the driver's last call on the handle ended
    cancelled,    \* whether an in-flight call of the driver was ever cancelled
    \* --- the log store (Postgres), as far as the loader reads it
    latest,            \* number of the last sealed L1 batch (headers 0..latest)
    protective_reads,  \* per sealed batch: its protective-read keys
    touched_slots,     \* per sealed batch: its touched slots, key -> final value
    initial_writes,    \* initial_writes table: key -> batch of its first write
    \* --- the task that reads the log store, and its results
    loader,            \* its position between two awaits, and its locals
    loaded,            \* L1BatchWithLogs::new's last result
    queries,           \* the log-store queries the last load issued
    slow_loaded,       \* L1BatchWithLogs::slow's last result
    tree_metadata,     \* assert_log_equivalence: metadata for the loader's logs
    slow_tree_metadata, \* assert_log_equivalence: metadata for the reference's
    \* --- Delayer
    observer,          \* Delayer.delay_notifier: "absent", "closed" or "open"
    delay_notifier,    \* the pairs sent on the channel and not yet received
    \* --- the revert scenario's notebook
    applied_batches,   \* per batch applied first: its logs, (next batch, root hash)
    seen_after_revert  \* (next batch, root hash) after the revert and each replay

handleVars == <<handle, rocksdb, workers, caller, outcome, cancelled>>
storeVars == <<latest, protective_reads, touched_slots, initial_writes>>
resultVars == <<loader, loaded, queries, slow_loaded, tree_metadata, slow_tree_metadata>>
delayVars == <<observer, delay_notifier>>
scenarioVars == <<applied_batches, seen_after_revert>>
sideVars == <<observer, delay_notifier, applied_batches, seen_after_revert>>
vars == <<handle, rocksdb, workers, caller, outcome, cancelled,
          latest, protective_reads, touched_slots, initial_writes,
          loader, loaded, queries, slow_loaded, tree_metadata, slow_tree_metadata,
          observer, delay_notifier, applied_batches, seen_after_revert>>

\* ------------------------------------------------------------ ZkSyncTree
\* A tree version is the leaf of every hashed key: its enumeration index
\* (0: no leaf) and its value.
EmptyLeaf == [index |-> 0, value |-> 0]
EmptyLeaves == [h \in HashedKeys |-> EmptyLeaf]
LeafCount(leaves) == Cardinality({h \in HashedKeys : leaves[h].index > 0})

\* The Merkle root: a collision-free digest of the allocated leaves.
RootHashOf(leaves) ==
    {<<h, leaves[h].index, leaves[h].value>> : h \in {x \in HashedKeys : leaves[x].index > 0}}

\* The in-memory tree object holds the versions not yet flushed; the flushed
\* ones are in the backing store, which the object owns exclusively.
NewTree == [patch |-> <<>>]
Versions(tree, db) == db \o tree.patch
LatestLeaves(tree, db) ==
    IF Versions(tree, db) = <<>> THEN EmptyLeaves
    ELSE Versions(tree, db)[Len(Versions(tree, db))]

TreeIsEmpty(tree, db) == Versions(tree, db) = <<>>
TreeNextL1BatchNumber(tree, db) == Len(Versions(tree, db))
TreeRootHash(tree, db) == RootHashOf(LatestLeaves(tree, db))

\* One storage log applied to a batch in progress.
BatchStart(leaves) ==
    [leaves |-> leaves, starting_leaf_count |-> LeafCount(leaves),
     initial_writes |-> <<>>, repeated_writes |-> <<>>, witness |-> <<>>]

WitnessEntry(h, is_write, first_write, index, value_read, value_written, leaves) ==
    [leaf_hashed_key |-> h, is_write |-> is_write, first_write |-> first_write,
     leaf_enumeration_index |-> index, value_read |-> value_read,
     value_written |-> value_written, root_hash |-> RootHashOf(leaves)]

ApplyLog(st, log) ==
    LET h == HashedKey(log.key)
        leaf == st.leaves[h]
    IN IF log.kind = "Read"
       THEN [st EXCEPT !.witness = Append(@,
                WitnessEntry(h, FALSE, FALSE, leaf.index, leaf.value, 0, st.leaves))]
       ELSE IF leaf.index = 0
       THEN LET index == LeafCount(st.leaves) + 1
                leaves == [st.leaves EXCEPT ![h] = [index |-> index, value |-> log.value]]
            IN [st EXCEPT !.leaves = leaves,
                          !.initial_writes = Append(@,
                              [index |-> index, key |-> h, value |-> log.value]),
                          !.witness = Append(@,
                              WitnessEntry(h, TRUE, TRUE, index, 0, log.value, leaves))]
       ELSE IF leaf.value # log.value
       THEN LET leaves == [st.leaves EXCEPT ![h].value = log.value]
            IN [st EXCEPT !.leaves = leaves,
                          !.repeated_writes = Append(@,
                              [index |-> leaf.index, value |-> log.value]),
                          !.witness = Append(@,
                              WitnessEntry(h, TRUE, FALSE, leaf.index, leaf.value,
                                           log.value, leaves))]
       ELSE st  \* a write of the value the leaf already holds is a no-op

RECURSIVE ApplyLogs(_, _)
ApplyLogs(st, logs) ==
    IF logs = <<>> THEN st ELSE ApplyLogs(ApplyLog(st, Head(logs)), Tail(logs))

\* TreeMetadata of a finished batch.
BatchMetadata(st) ==
    [root_hash |-> RootHashOf(st.leaves),
     rollup_last_leaf_index |-> LeafCount(st.leaves) + 1,
     initial_writes |-> st.initial_writes,
     repeated_writes |-> st.repeated_writes,
     witness |-> [next_enumeration_index |-> st.starting_leaf_count + 1,
                  merkle_paths |-> st.witness]]

\* ZkSyncTree::process_l1_batch: the whole batch, kept in memory.
TreeProcessL1Batch(tree, db, logs) ==
    LET st == ApplyLogs(BatchStart(LatestLeaves(tree, db)), logs)
    IN [tree |-> [patch |-> Append(tree.patch, st.leaves)], metadata |-> BatchMetadata(st)]

\* ZkSyncTree::save: flush the in-memory versions to the backing store.
TreeSave(tree, db) == [tree |-> [patch |-> <<>>], db |-> db \o tree.patch]

\* ZkSyncTree::reset: forget the versions that were not flushed.
TreeReset(tree) == [patch |-> <<>>]

\* ZkSyncTree::revert_logs: forget the unflushed versions and truncate the
\* store to the versions 0..last_l1_batch_to_keep.
TreeRevertLogs(tree, db, last_l1_batch_to_keep) ==
    [tree |-> [patch |-> <<>>],
     db |-> IF Len(db) > last_l1_batch_to_keep + 1
            THEN SubSeq(db, 1, last_l1_batch_to_keep + 1) ELSE db]

\* ------------------------------------------------------------ log store
L1BatchHeader(number) == [number |-> number]

\* blocks_dal().get_l1_batch_header
GetL1BatchHeader(number) ==
    IF number <= latest THEN Some(L1BatchHeader(number)) ELSE None

\* storage_logs_dedup_dal().get_protective_reads_for_l1_batch
GetProtectiveReadsForL1Batch(number) ==
    IF number <= latest THEN protective_reads[number] ELSE {}

\* storage_logs_dal().get_touched_slots_for_l1_batch
GetTouchedSlotsForL1Batch(number) ==
    IF number <= latest THEN touched_slots[number] ELSE EmptyMap

\* storage_logs_dal().get_l1_batches_for_initial_writes: hashed key -> batch,
\* for the queried keys that have a record.
GetL1BatchesForInitialWrites(hashed_keys) ==
    LET found == {k \in DOMAIN initial_writes : HashedKey(k) \in hashed_keys}
    IN [h \in {HashedKey(k) : k \in found} |->
           initial_writes[CHOOSE k \in found : HashedKey(k) = h]]

\* The value of a key before batch `number`: the one the last earlier batch
\* that touched it left, if any.
PreviousValue(key, number) ==
    LET earlier == {b \in 0..(number - 1) : b <= latest /\ key \in DOMAIN touched_slots[b]}
    IN IF earlier = {} THEN None
       ELSE Some(touched_slots[CHOOSE b \in earlier : \A c \in earlier : c <= b][key])

\* storage_logs_dal().get_previous_storage_values: hashed key -> Option<value>
GetPreviousStorageValues(hashed_keys, number) ==
    [h \in hashed_keys |->
        PreviousValue(CHOOSE k \in StorageKeys : HashedKey(k) = h, number)]

\* ------------------------------------------------- L1BatchWithLogs::new
MapGet(map, k) == IF k \in DOMAIN map THEN Some(map[k]) ELSE None

Query(dal, arg) == [dal |-> dal, arg |-> arg]

\* One turn of `for storage_key in protective_reads`: the key leaves
\* touched_slots and gets a read log with the zero placeholder.
ReadStepKeepsSlot(acc, storage_key) ==
    [touched_slots |-> acc.touched_slots,
     storage_logs |-> MapInsert(acc.storage_logs, storage_key, NewReadLog(storage_key, 0))]

ReadStepCarriesTouchedValue(acc, storage_key) ==
    [touched_slots |-> MapRemove(acc.touched_slots, storage_key),
     storage_logs |-> MapInsert(acc.storage_logs, storage_key,
        NewReadLog(storage_key, IF storage_key \in DOMAIN acc.touched_slots
                                THEN acc.touched_slots[storage_key] ELSE 0))]

ReadStep(acc, storage_key) ==
    [touched_slots |-> MapRemove(acc.touched_slots, storage_key),
     storage_logs |-> MapInsert(acc.storage_logs, storage_key, NewReadLog(storage_key, 0))]

RECURSIVE ReadLoop(_, _)
ReadLoop(reads, acc) ==
    IF reads = <<>> THEN acc ELSE ReadLoop(Tail(reads), ReadStep(acc, Head(reads)))

HashedKeysForZeroValuesUnhashed(slots) == {k \in DOMAIN slots : IsZero(slots[k])}

\* The keys whose initial write is looked up: value.is_zero().then(|| key.hashed_key())
HashedKeysForZeroValues(slots) ==
    {HashedKey(key) : key \in {k \in DOMAIN slots : IsZero(slots[k])}}

WriteMattersIgnoresBatch(value, initial_write_batch_for_key, l1_batch_number) ==
    IF IsZero(value) THEN IsSome(initial_write_batch_for_key) ELSE TRUE

WriteMattersChecksAllValues(value, initial_write_batch_for_key, l1_batch_number) ==
    IF IsSome(initial_write_batch_for_key)
    THEN Unwrap(initial_write_batch_for_key) <= l1_batch_number
    ELSE FALSE

WriteMattersAlways(value, initial_write_batch_for_key, l1_batch_number) == TRUE

WriteMattersStrictlyEarlier(value, initial_write_batch_for_key, l1_batch_number) ==
    IF IsZero(value)
    THEN IF IsSome(initial_write_batch_for_key)
         THEN Unwrap(initial_write_batch_for_key) < l1_batch_number
         ELSE FALSE
    ELSE TRUE

WriteMattersDropsZero(value, initial_write_batch_for_key, l1_batch_number) ==
    ~IsZero(value)

\* write_matters: a zero value counts only if the key's initial write is
\* recorded in this batch or an earlier one.
WriteMatters(value, initial_write_batch_for_key, l1_batch_number) ==
    IF IsZero(value)
    THEN IF IsSome(initial_write_batch_for_key)
         THEN Unwrap(initial_write_batch_for_key) <= l1_batch_number
         ELSE FALSE
    ELSE TRUE

\* for (storage_key, value) in touched_slots { if write_matters { insert write log } }
\* `order` lists the keys in the map's iteration order.
RECURSIVE WriteLoop(_, _, _, _, _)
WriteLoop(order, slots, l1_batches_for_initial_writes, l1_batch_number, storage_logs) ==
    IF order = <<>> THEN storage_logs
    ELSE LET storage_key == Head(order)
             rest == Tail(order)
         IN IF storage_key \notin DOMAIN slots
            THEN WriteLoop(rest, slots, l1_batches_for_initial_writes,
                           l1_batch_number, storage_logs)
            ELSE LET value == slots[storage_key]
                     initial_write_batch_for_key ==
                         MapGet(l1_batches_for_initial_writes, HashedKey(storage_key))
                 IN WriteLoop(rest, slots, l1_batches_for_initial_writes, l1_batch_number,
                        IF WriteMatters(value, initial_write_batch_for_key, l1_batch_number)
                        THEN MapInsert(storage_logs, storage_key,
                                       NewWriteLog(storage_key, value))
                        ELSE storage_logs)

\* `.unwrap()?` on a missing header: None, before any other query is issued.
NewWithoutHeaderFetchesFirst(l1_batch_number) ==
    [result |-> None,
     queries |-> <<Query("get_l1_batch_header", l1_batch_number),
                   Query("get_protective_reads_for_l1_batch", l1_batch_number),
                   Query("get_touched_slots_for_l1_batch", l1_batch_number)>>]

NewWithoutHeader(l1_batch_number) ==
    [result |-> None, queries |-> <<Query("get_l1_batch_header", l1_batch_number)>>]

\* ---------------------------------------------------- the handle at rest
Free == [stage |-> "free"]
HandleIdle ==
    /\ workers = [w \in 1..MaxWorkers |-> Free]
    /\ caller = [pc |-> "idle"]
    /\ outcome = [op |-> "new", kind |-> "value", value |-> None]
    /\ cancelled = FALSE
\* No observer is wired and no scenario is under way.
SideIdle ==
    /\ observer = "absent"
    /\ delay_notifier = <<>>
    /\ applied_batches = <<>>
    /\ seen_after_revert = <<>>
\* ensure_genesis_state: batch 0 is sealed, with no logs of the keys followed.
GenesisStore ==
    /\ latest = 0
    /\ protective_reads = [b \in {0} |-> {}]
    /\ touched_slots = [b \in {0} |-> EmptyMap]
    /\ initial_writes = EmptyMap
\* The reading task at rest.
LoaderIdle ==
    [pc |-> "idle", l1_batch_number |-> 0, header |-> None, protective_reads |-> {},
     touched_slots |-> EmptyMap, storage_logs |-> EmptyMap, then |-> "idle"]
ResultsInit ==
    /\ loader = LoaderIdle
    /\ loaded = None
    /\ queries = <<>>
    /\ slow_loaded = None
    /\ tree_metadata = None
    /\ slow_tree_metadata = None

\* ------------------------------------------------- the writer of the store
UnwrapOrDefault(o) == IF IsSome(o) THEN Unwrap(o) ELSE 0

\* The storage value of every key once batch `latest` is sealed.
ValuesAfterLatest == [k \in StorageKeys |-> PreviousValue(k, latest + 1)]

\* The upstream deduplication contract on a new batch: a protective read
\* that is also touched keeps the value it had.
SatisfiesDedupContract(slots, reads) ==
    \A k \in reads \cap DOMAIN slots : slots[k] = UnwrapOrDefault(ValuesAfterLatest[k])

\* insert_initial_writes_for_batch: the keys written with a non-zero value
\* that have no initial write yet get this batch as theirs.
InsertInitialWrites(slots, number) ==
    [k \in (DOMAIN initial_writes) \cup {x \in DOMAIN slots : slots[x] # 0} |->
        IF k \in DOMAIN initial_writes THEN initial_writes[k] ELSE number]

\* extend_db_state, or the state keeper: the next L1 batch is sealed in the
\* log store, whatever the reading task is doing.
SealBatch(slots, reads) ==
    /\ latest < MaxBatch
    /\ SatisfiesDedupContract(slots, reads)
    /\ latest' = latest + 1
    /\ touched_slots' = [b \in 0..(latest + 1) |->
                            IF b <= latest THEN touched_slots[b] ELSE slots]
    /\ protective_reads' = [b \in 0..(latest + 1) |->
                               IF b <= latest THEN protective_reads[b] ELSE reads]
    /\ initial_writes' = InsertInitialWrites(slots, latest + 1)
    /\ UNCHANGED resultVars
    /\ UNCHANGED handleVars
    /\ UNCHANGED sideVars

\* ------------------------------------- L1BatchWithLogs::new, await by await
\* The reading task is inside new, at one of its queries.
NewInFlight ==
    loader.pc \in {"get_protective_reads_for_l1_batch",
                   "get_touched_slots_for_l1_batch",
                   "get_l1_batches_for_initial_writes"}

\* new is called and its header query answers: None ends the call at once.
\* `then` is where the task goes on once new has returned.
NewGetL1BatchHeader(l1_batch_number, then) ==
    /\ loader.pc = "idle"
    /\ IF ~IsSome(GetL1BatchHeader(l1_batch_number))
       THEN /\ loaded' = NewWithoutHeader(l1_batch_number).result
            /\ queries' = NewWithoutHeader(l1_batch_number).queries
            /\ loader' = [LoaderIdle EXCEPT
                              !.pc = IF then = "idle" THEN "idle" ELSE "panicked"]
       ELSE /\ loaded' = None
            /\ queries' = <<Query("get_l1_batch_header", l1_batch_number)>>
            /\ loader' = [LoaderIdle EXCEPT
                              !.pc = "get_protective_reads_for_l1_batch",
                              !.l1_batch_number = l1_batch_number,
                              !.header = GetL1BatchHeader(l1_batch_number),
                              !.then = then]
    /\ UNCHANGED <<slow_loaded, tree_metadata, slow_tree_metadata>>
    /\ UNCHANGED storeVars
    /\ UNCHANGED handleVars
    /\ UNCHANGED sideVars

\* The protective reads arrive.
NewGetProtectiveReads ==
    /\ loader.pc = "get_protective_reads_for_l1_batch"
    /\ loader' = [loader EXCEPT
          !.pc = "get_touched_slots_for_l1_batch",
          !.protective_reads = GetProtectiveReadsForL1Batch(loader.l1_batch_number)]
    /\ queries' = Append(queries,
          Query("get_protective_reads_for_l1_batch", loader.l1_batch_number))
    /\ UNCHANGED <<loaded, slow_loaded, tree_metadata, slow_tree_metadata>>
    /\ UNCHANGED storeVars
    /\ UNCHANGED handleVars
    /\ UNCHANGED sideVars

\* The touched slots arrive, and the loop over the protective reads runs.
NewGetTouchedSlots ==
    /\ loader.pc = "get_touched_slots_for_l1_batch"
    /\ \E reads_order \in Orders(loader.protective_reads) :
          LET after_reads == ReadLoop(reads_order,
                  [touched_slots |-> GetTouchedSlotsForL1Batch(loader.l1_batch_number),
                   storage_logs |-> EmptyMap])
          IN loader' = [loader EXCEPT
                 !.pc = "get_l1_batches_for_initial_writes",
                 !.touched_slots = after_reads.touched_slots,
                 !.storage_logs = after_reads.storage_logs]
    /\ queries' = Append(queries,
          Query("get_touched_slots_for_l1_batch", loader.l1_batch_number))
    /\ UNCHANGED <<loaded, slow_loaded, tree_metadata, slow_tree_metadata>>
    /\ UNCHANGED storeVars
    /\ UNCHANGED handleVars
    /\ UNCHANGED sideVars

\* The initial writes of the zero-valued slots arrive, the loop over the
\* remaining touched slots runs, and new returns.
NewGetL1BatchesForInitialWrites ==
    /\ loader.pc = "get_l1_batches_for_initial_writes"
    /\ \E slots_order \in Orders(DOMAIN loader.touched_slots) :
          LET hashed_keys_for_zero_values ==
                  HashedKeysForZeroValues(loader.touched_slots)
              l1_batches_for_initial_writes ==
                  GetL1BatchesForInitialWrites(hashed_keys_for_zero_values)
              storage_logs == WriteLoop(slots_order, loader.touched_slots,
                  l1_batches_for_initial_writes, loader.l1_batch_number,
                  loader.storage_logs)
          IN /\ loaded' = Some([header |-> Unwrap(loader.header),
                                storage_logs |-> IntoValues(storage_logs)])
             /\ queries' = Append(queries,
                   Query("get_l1_batches_for_initial_writes",
                         hashed_keys_for_zero_values))
    /\ loader' = IF loader.then = "idle" THEN LoaderIdle
                 ELSE [LoaderIdle EXCEPT !.pc = loader.then,
                                         !.l1_batch_number = loader.l1_batch_number]
    /\ UNCHANGED <<slow_loaded, tree_metadata, slow_tree_metadata>>
    /\ UNCHANGED storeVars
    /\ UNCHANGED handleVars
    /\ UNCHANGED sideVars

\* -------------------------------------- specification of the loader alone
\* Any content of the log store for the last sealed batch, a batch after
\* genesis: the loader's inputs are drawn from every combination of
\* protective reads, touched slots and initial-write records; later batches
\* are sealed while it runs.
PartialMaps(D, R) == UNION {[S -> R] : S \in SUBSET D}

InitLoad ==
    /\ latest \in BatchNumbers \ {0}
    /\ \E reads \in SUBSET StorageKeys :
          protective_reads = [b \in 0..latest |-> IF b = latest THEN reads ELSE {}]
    /\ \E slots \in PartialMaps(StorageKeys, Values) :
          touched_slots = [b \in 0..latest |-> IF b = latest THEN slots ELSE EmptyMap]
    /\ initial_writes \in PartialMaps(StorageKeys, BatchNumbers)
    /\ handle = Some(NewTree)
    /\ rocksdb = <<>>
    /\ HandleIdle
    /\ SideIdle
    /\ ResultsInit

NextLoad ==
    \/ \E l1_batch_number \in {latest, latest + 1} :
          NewGetL1BatchHeader(l1_batch_number, "idle")
    \/ NewGetProtectiveReads
    \/ NewGetTouchedSlots
    \/ NewGetL1BatchesForInitialWrites
    \/ \E slots \in PartialMaps(StorageKeys, Values), reads \in SUBSET StorageKeys :
          SealBatch(slots, reads)

SpecLoad == InitLoad /\ [][NextLoad]_vars

\* ------------------------------------------------------------ AsyncTree
INCONSISTENT_MSG == "ZkSyncTree is in inconsistent state"
TREE_FAILURE_MSG == "tree operation failed"

AsRefOrDefault(h) == [ok |-> TRUE, tree |-> IF IsSome(h) THEN Unwrap(h) ELSE NewTree]

\* as_ref / as_mut: self.0.as_ref().expect(INCONSISTENT_MSG)
AsRef(h) ==
    IF IsSome(h) THEN [ok |-> TRUE, tree |-> Unwrap(h)]
    ELSE [ok |-> FALSE, msg |-> INCONSISTENT_MSG]

\* What mem::take(self) leaves in the handle: AsyncTree::default(), i.e. None.
MemTakeLeavesClone(h) == h
MemTakeLeaves(h) == None

Awaiting(op, w, storage_logs) ==
    [pc |-> "awaiting", op |-> op, worker |-> w, storage_logs |-> storage_logs,
     before |-> handle]
Idle == [pc |-> "idle"]
Returned(op, value) == [op |-> op, kind |-> "value", value |-> value]
Panicked(op, msg) == [op |-> op, kind |-> "panic", msg |-> msg]
Pending(op) == [op |-> op, kind |-> "pending"]
Cancelled(op) == [op |-> op, kind |-> "cancelled"]

\* tokio::task::spawn_blocking(closure): the closure owns what it captured.
Spawned(op, tree, storage_logs) ==
    [stage |-> "spawned", op |-> op, tree |-> tree, storage_logs |-> storage_logs,
     st |-> None, attached |-> TRUE]
FreeWorkers == {w \in 1..MaxWorkers : workers[w] = Free}
Alive(w) == workers[w] # Free
HoldsTree(w) == Alive(w) /\ IsSome(workers[w].tree)

\* The log lists the driver submits in this specification.
DriverBatches ==
    {<<NewWriteLog(1, MaxValue)>>,
     <<NewReadLog(1, 0), NewWriteLog(NumKeys, 1)>>}

AccessorTakesTree(op, value) ==
    /\ caller.pc = "idle"
    /\ outcome' = IF AsRef(handle).ok THEN Returned(op, value)
                  ELSE Panicked(op, AsRef(handle).msg)
    /\ handle' = None
    /\ UNCHANGED <<rocksdb, workers, caller, cancelled>>
    /\ UNCHANGED storeVars
    /\ UNCHANGED resultVars
    /\ UNCHANGED sideVars

\* A call of an accessor: it fails on an empty handle and changes nothing.
Accessor(op, value) ==
    /\ caller.pc = "idle"
    /\ outcome' = IF AsRef(handle).ok THEN Returned(op, value)
                  ELSE Panicked(op, AsRef(handle).msg)
    /\ UNCHANGED <<handle, rocksdb, workers, caller, cancelled>>
    /\ UNCHANGED storeVars
    /\ UNCHANGED resultVars
    /\ UNCHANGED sideVars

is_empty ==
    Accessor("is_empty", IF IsSome(handle) THEN TreeIsEmpty(Unwrap(handle), rocksdb) ELSE None)

next_l1_batch_number ==
    Accessor("next_l1_batch_number",
             IF IsSome(handle) THEN TreeNextL1BatchNumber(Unwrap(handle), rocksdb) ELSE None)

root_hash ==
    Accessor("root_hash", IF IsSome(handle) THEN TreeRootHash(Unwrap(handle), rocksdb) ELSE None)

\* The next batch of the tree in the handle is at most `last`.
BatchInRange(last) ==
    IsSome(handle) => TreeNextL1BatchNumber(Unwrap(handle), rocksdb) <= last

\* process_l1_batch up to its await: the tree is taken out of the handle and
\* moved into a blocking task.
process_l1_batch(storage_logs) ==
    /\ caller.pc = "idle"
    /\ FreeWorkers # {}
    /\ LET w == MinOf(FreeWorkers)
       IN /\ workers' = [workers EXCEPT ![w] = Spawned("process_l1_batch", handle, storage_logs)]
          /\ caller' = Awaiting("process_l1_batch", w, storage_logs)
    /\ handle' = MemTakeLeaves(handle)
    /\ outcome' = Pending("process_l1_batch")
    /\ UNCHANGED <<rocksdb, cancelled>>
    /\ UNCHANGED storeVars
    /\ UNCHANGED resultVars
    /\ UNCHANGED sideVars

\* save up to its await.
save ==
    /\ caller.pc = "idle"
    /\ FreeWorkers # {}
    /\ LET w == MinOf(FreeWorkers)
       IN /\ workers' = [workers EXCEPT ![w] = Spawned("save", handle, <<>>)]
          /\ caller' = Awaiting("save", w, <<>>)
    /\ handle' = MemTakeLeaves(handle)
    /\ outcome' = Pending("save")
    /\ UNCHANGED <<rocksdb, cancelled>>
    /\ UNCHANGED storeVars
    /\ UNCHANGED resultVars
    /\ UNCHANGED sideVars

RevertLogsKeepsOneMore(last_l1_batch_to_keep) ==
    /\ caller.pc = "idle"
    /\ IF AsRef(handle).ok
       THEN LET r == TreeRevertLogs(AsRef(handle).tree, rocksdb, last_l1_batch_to_keep + 1)
            IN /\ handle' = Some(r.tree)
               /\ rocksdb' = r.db
               /\ outcome' = Returned("revert_logs", None)
       ELSE /\ outcome' = Panicked("revert_logs", AsRef(handle).msg)
            /\ UNCHANGED <<handle, rocksdb>>
    /\ UNCHANGED <<workers, caller, cancelled>>
    /\ UNCHANGED storeVars
    /\ UNCHANGED resultVars
    /\ UNCHANGED sideVars

\* revert_logs: synchronous, on the tree where it is.
revert_logs(last_l1_batch_to_keep) ==
    /\ caller.pc = "idle"
    /\ IF AsRef(handle).ok
       THEN LET r == TreeRevertLogs(AsRef(handle).tree, rocksdb, last_l1_batch_to_keep)
            IN /\ handle' = Some(r.tree)
               /\ rocksdb' = r.db
               /\ outcome' = Returned("revert_logs", None)
       ELSE /\ outcome' = Panicked("revert_logs", AsRef(handle).msg)
            /\ UNCHANGED <<handle, rocksdb>>
    /\ UNCHANGED <<workers, caller, cancelled>>
    /\ UNCHANGED storeVars
    /\ UNCHANGED resultVars
    /\ UNCHANGED sideVars

\* A task that ended: its output waits for the JoinHandle; without one it is
\* dropped at once, and the tree with it.
Ended(task) == IF task.attached THEN task ELSE Free

\* The mutation itself fails inside the closure: the unwinding drops the tree.
TreeFailureHandsTreeBack(task) ==
    [task EXCEPT !.stage = "finished",
                 !.tree = Some([patch |-> Append(Unwrap(task.tree).patch,
                                                 Unwrap(task.st).leaves)]),
                 !.st = Some(BatchMetadata(Unwrap(task.st)))]

TreeFailure(task) ==
    [task EXCEPT !.stage = "panicked", !.tree = None, !.st = Some(TREE_FAILURE_MSG)]

\* One step of the closure of a blocking task.
WorkerStep(w) ==
    /\ Alive(w)
    /\ LET task == workers[w]
       IN \/ /\ task.stage = "spawned"       \* tree.as_mut()
             /\ workers' = [workers EXCEPT ![w] =
                   IF ~AsRef(task.tree).ok
                   THEN Ended([task EXCEPT !.stage = "panicked",
                                           !.st = Some(AsRef(task.tree).msg)])
                   ELSE [task EXCEPT !.stage = "running",
                            !.tree = Some(AsRef(task.tree).tree),
                            !.st = Some(BatchStart(
                                LatestLeaves(AsRef(task.tree).tree, rocksdb)))]]
             /\ UNCHANGED rocksdb
          \/ /\ task.stage = "running"       \* ZkSyncTree::process_l1_batch
             /\ task.op = "process_l1_batch"
             /\ task.storage_logs # <<>>
             /\ workers' = [workers EXCEPT ![w] =
                   [task EXCEPT !.st = Some(ApplyLog(Unwrap(task.st), Head(task.storage_logs))),
                                !.storage_logs = Tail(task.storage_logs)]]
             /\ UNCHANGED rocksdb
          \/ /\ task.stage = "running"       \* (tree, metadata)
             /\ task.op = "process_l1_batch"
             /\ task.storage_logs = <<>>
             /\ workers' = [workers EXCEPT ![w] = Ended(
                   [task EXCEPT !.stage = "finished",
                                !.tree = Some([patch |-> Append(Unwrap(task.tree).patch,
                                                                Unwrap(task.st).leaves)]),
                                !.st = Some(BatchMetadata(Unwrap(task.st)))])]
             /\ UNCHANGED rocksdb
          \/ /\ task.stage = "running"       \* ZkSyncTree::save; tree
             /\ task.op = "save"
             /\ LET r == TreeSave(Unwrap(task.tree), rocksdb)
                IN /\ rocksdb' = r.db
                   /\ workers' = [workers EXCEPT ![w] = Ended(
                         [task EXCEPT !.stage = "finished", !.tree = Some(r.tree),
                                      !.st = None])]
    /\ UNCHANGED <<handle, caller, outcome, cancelled>>
    /\ UNCHANGED storeVars
    /\ UNCHANGED resultVars
    /\ UNCHANGED sideVars

\* The tree's own operation panics while it runs (a failure of the store).
WorkerPanic(w) ==
    /\ Alive(w)
    /\ workers[w].stage = "running"
    /\ workers' = [workers EXCEPT ![w] = Ended(TreeFailure(workers[w]))]
    /\ UNCHANGED <<handle, rocksdb, caller, outcome, cancelled>>
    /\ UNCHANGED storeVars
    /\ UNCHANGED resultVars
    /\ UNCHANGED sideVars

JoinRestoresTreeOnPanic ==
    /\ caller.pc = "awaiting"
    /\ LET task == workers[caller.worker]
       IN \/ /\ task.stage = "finished"
             /\ handle' = task.tree
             /\ outcome' = Returned(caller.op, task.st)
          \/ /\ task.stage = "panicked"
             /\ outcome' = Panicked(caller.op, Unwrap(task.st))
             /\ handle' = caller.before
    /\ workers' = [workers EXCEPT ![caller.worker] = Free]
    /\ caller' = [caller EXCEPT !.pc = "idle"]
    /\ UNCHANGED <<rocksdb, cancelled>>
    /\ UNCHANGED storeVars
    /\ UNCHANGED resultVars
    /\ UNCHANGED sideVars

\* `.await.unwrap()` resolves: the task's output is moved back (`*self = tree`)
\* or its panic is propagated to the caller.
Join ==
    /\ caller.pc = "awaiting"
    /\ LET task == workers[caller.worker]
       IN \/ /\ task.stage = "finished"
             /\ handle' = task.tree
             /\ outcome' = Returned(caller.op, task.st)
          \/ /\ task.stage = "panicked"
             /\ outcome' = Panicked(caller.op, Unwrap(task.st))
             /\ UNCHANGED handle
    /\ workers' = [workers EXCEPT ![caller.worker] = Free]
    /\ caller' = [caller EXCEPT !.pc = "idle"]
    /\ UNCHANGED <<rocksdb, cancelled>>
    /\ UNCHANGED storeVars
    /\ UNCHANGED resultVars
    /\ UNCHANGED sideVars

CancelAbortsTask ==
    /\ caller.pc = "awaiting"
    /\ workers' = [workers EXCEPT ![caller.worker] = Free]
    /\ caller' = [caller EXCEPT !.pc = "idle"]
    /\ outcome' = Cancelled(caller.op)
    /\ cancelled' = TRUE
    /\ UNCHANGED <<handle, rocksdb>>
    /\ UNCHANGED storeVars
    /\ UNCHANGED resultVars
    /\ UNCHANGED sideVars

\* The task awaiting the call is cancelled: the future and its JoinHandle are
\* dropped at the await; the blocking task is not stopped.
Cancel ==
    /\ caller.pc = "awaiting"
    /\ LET task == workers[caller.worker]
       IN workers' = [workers EXCEPT ![caller.worker] =
              IF task.stage \in {"finished", "panicked"} THEN Free
              ELSE [task EXCEPT !.attached = FALSE]]
    /\ caller' = [caller EXCEPT !.pc = "idle"]
    /\ outcome' = Cancelled(caller.op)
    /\ cancelled' = TRUE
    /\ UNCHANGED <<handle, rocksdb>>
    /\ UNCHANGED storeVars
    /\ UNCHANGED resultVars
    /\ UNCHANGED sideVars

\* AsyncTree::new on an empty store; the log store plays no part here.
Init ==
    /\ handle = Some(NewTree)
    /\ rocksdb = <<>>
    /\ HandleIdle
    /\ SideIdle
    /\ GenesisStore
    /\ ResultsInit

Next ==
    \/ is_empty
    \/ next_l1_batch_number
    \/ root_hash
    \/ \E storage_logs \in DriverBatches :
          /\ BatchInRange(MaxBatch)
          /\ process_l1_batch(storage_logs)
    \/ save
    \/ \E last_l1_batch_to_keep \in BatchNumbers : revert_logs(last_l1_batch_to_keep)
    \/ \E w \in 1..MaxWorkers : WorkerStep(w)
    \/ \E w \in 1..MaxWorkers : WorkerPanic(w)
    \/ Join
    \/ Cancel

Spec == Init /\ [][Next]_vars

\* --------------------------------------------------------------- Delayer
\* delay_notifier exists under cfg(test) only ("absent" otherwise);
\* Delayer::new keeps the sender of a channel whose receiver is dropped at
\* once ("closed"); a test installs a sender whose receiver it holds ("open").
Observers == {"absent", "closed", "open"}

ObservationOfStore(tree, db) ==
    <<Len(db), RootHashOf(IF db = <<>> THEN EmptyLeaves ELSE db[Len(db)])>>

\* (tree.next_l1_batch_number(), tree.root_hash())
Observation(tree, db) == <<TreeNextL1BatchNumber(tree, db), TreeRootHash(tree, db)>>

\* UnboundedSender::send(..).ok(): queued while the receiver lives; with the
\* receiver dropped the send fails and the error is discarded.
Send(channel, message) ==
    IF observer = "open" THEN Append(channel, message) ELSE channel

\* Delayer::wait up to the await of the future it returns.
wait ==
    /\ caller.pc = "idle"
    /\ Len(delay_notifier) < MaxQueued
    /\ IF observer = "absent"
       THEN /\ caller' = [caller EXCEPT !.pc = "sleeping"]
            /\ outcome' = Pending("wait")
            /\ UNCHANGED delay_notifier
       ELSE IF AsRef(handle).ok
       THEN /\ delay_notifier' =
                   Send(delay_notifier, Observation(AsRef(handle).tree, rocksdb))
            /\ caller' = [caller EXCEPT !.pc = "sleeping"]
            /\ outcome' = Pending("wait")
       ELSE /\ outcome' = Panicked("wait", AsRef(handle).msg)
            /\ UNCHANGED <<delay_notifier, caller>>
    /\ UNCHANGED <<handle, rocksdb, workers, cancelled, observer>>
    /\ UNCHANGED storeVars
    /\ UNCHANGED resultVars
    /\ UNCHANGED scenarioVars

\* tokio::time::sleep(delay_interval) completes, or the future is dropped.
Elapsed ==
    /\ caller.pc = "sleeping"
    /\ caller' = [caller EXCEPT !.pc = "idle"]
    /\ outcome' = Returned("wait", None)
    /\ UNCHANGED <<handle, rocksdb, workers, cancelled>>
    /\ UNCHANGED storeVars
    /\ UNCHANGED resultVars
    /\ UNCHANGED sideVars

\* The observer takes the oldest pair off the channel.
Receive ==
    /\ observer = "open"
    /\ delay_notifier # <<>>
    /\ delay_notifier' = Tail(delay_notifier)
    /\ UNCHANGED observer
    /\ UNCHANGED handleVars
    /\ UNCHANGED storeVars
    /\ UNCHANGED resultVars
    /\ UNCHANGED scenarioVars

\* The observer drops its receiver, and the queued pairs with it.
DropReceiver ==
    /\ observer = "open"
    /\ observer' = "closed"
    /\ delay_notifier' = <<>>
    /\ UNCHANGED handleVars
    /\ UNCHANGED storeVars
    /\ UNCHANGED resultVars
    /\ UNCHANGED scenarioVars

\* The driver with a Delayer: any build and any wiring of the observer.
InitDelay ==
    /\ handle = Some(NewTree)
    /\ rocksdb = <<>>
    /\ workers = [w \in 1..MaxWorkers |-> Free]
    /\ caller = [pc |-> "idle"]
    /\ outcome = [op |-> "new", kind |-> "value", value |-> None]
    /\ cancelled = FALSE
    /\ GenesisStore
    /\ ResultsInit
    /\ observer \in Observers
    /\ delay_notifier = <<>>
    /\ applied_batches = <<>>
    /\ seen_after_revert = <<>>

NextDelay ==
    \/ wait
    \/ Elapsed
    \/ Receive
    \/ DropReceiver
    \/ \E storage_logs \in DriverBatches :
          /\ BatchInRange(MaxBatch)
          /\ process_l1_batch(storage_logs)
    \/ save
    \/ \E w \in 1..MaxWorkers : WorkerStep(w)
    \/ Join
    \/ Cancel

SpecDelay == InitDelay /\ [][NextDelay]_vars

\* ---------------------------------------------------- the revert scenario
\* The driver applies batches 0..LastBatch (process_l1_batch, then save),
\* noting after each the next batch number and root hash; it calls
\* revert_logs(KeepBatch) and applies the later batches again with the log
\* lists it noted, noting the same pair after the revert and each replay.
ScenarioLogs ==
    DriverBatches \cup {<<NewWriteLog(1, 0), NewWriteLog(NumKeys, MaxValue)>>}

AfterRevert == outcome.op = "revert_logs" \/ seen_after_revert # <<>>
TreeNext == TreeNextL1BatchNumber(Unwrap(handle), rocksdb)
ProcessReturned ==
    caller.pc = "idle" /\ outcome.op = "process_l1_batch" /\ outcome.kind = "value"

ApplyNext(storage_logs) ==
    /\ ~AfterRevert
    /\ outcome.op \in {"new", "save"}
    /\ IsSome(handle)
    /\ TreeNext = Len(applied_batches)
    /\ BatchInRange(LastBatch)
    /\ process_l1_batch(storage_logs)

NoteApplied ==
    /\ ~AfterRevert
    /\ ProcessReturned
    /\ IsSome(handle)
    /\ Len(applied_batches) = TreeNext - 1
    /\ applied_batches' = Append(applied_batches,
          [storage_logs |-> caller.storage_logs,
           seen |-> Observation(Unwrap(handle), rocksdb)])
    /\ UNCHANGED seen_after_revert
    /\ UNCHANGED delayVars
    /\ UNCHANGED handleVars
    /\ UNCHANGED storeVars
    /\ UNCHANGED resultVars

SaveNoted ==
    /\ ProcessReturned
    /\ IsSome(handle)
    /\ IF AfterRevert THEN Len(seen_after_revert) = TreeNext - KeepBatch
                      ELSE Len(applied_batches) = TreeNext
    /\ save

Revert ==
    /\ ~AfterRevert
    /\ outcome.op = "save" /\ outcome.kind = "value"
    /\ IsSome(handle)
    /\ TreeNext = LastBatch + 1
    /\ revert_logs(KeepBatch)

NoteReverted ==
    /\ caller.pc = "idle"
    /\ outcome.op = "revert_logs"
    /\ IsSome(handle)
    /\ seen_after_revert = <<>>
    /\ seen_after_revert' = <<Observation(Unwrap(handle), rocksdb)>>
    /\ UNCHANGED applied_batches
    /\ UNCHANGED delayVars
    /\ UNCHANGED handleVars
    /\ UNCHANGED storeVars
    /\ UNCHANGED resultVars

ReplayNext ==
    /\ seen_after_revert # <<>>
    /\ outcome.op \in {"revert_logs", "save"}
    /\ IsSome(handle)
    /\ Len(seen_after_revert) = TreeNext - KeepBatch
    /\ BatchInRange(LastBatch)
    /\ TreeNext < Len(applied_batches)
    /\ process_l1_batch(applied_batches[TreeNext + 1].storage_logs)

NoteReplayed ==
    /\ seen_after_revert # <<>>
    /\ ProcessReturned
    /\ IsSome(handle)
    /\ Len(seen_after_revert) = TreeNext - KeepBatch - 1
    /\ seen_after_revert' =
          Append(seen_after_revert, Observation(Unwrap(handle), rocksdb))
    /\ UNCHANGED applied_batches
    /\ UNCHANGED delayVars
    /\ UNCHANGED handleVars
    /\ UNCHANGED storeVars
    /\ UNCHANGED resultVars

NextRevert ==
    \/ \E storage_logs \in ScenarioLogs : ApplyNext(storage_logs)
    \/ NoteApplied
    \/ SaveNoted
    \/ Revert
    \/ NoteReverted
    \/ ReplayNext
    \/ NoteReplayed
    \/ \E w \in 1..MaxWorkers : WorkerStep(w)
    \/ Join

SpecRevert == Init /\ [][NextRevert]_vars

\* ------------------------------------------------ L1BatchWithLogs::slow
\* A set of keys as a sequence, in ascending order.
RECURSIVE Ascending(_)
Ascending(S) == IF S = {} THEN <<>> ELSE <<MinOf(S)>> \o Ascending(S \ {MinOf(S)})

\* for storage_key in protective_reads: the sanity check, then a read log
\* carrying the previous value.
RECURSIVE SlowReadLoop(_, _, _, _)
SlowReadLoop(reads, slots, prev, acc) ==
    IF reads = <<>> THEN acc
    ELSE LET storage_key == Head(reads)
             previous_value == UnwrapOrDefault(prev[HashedKey(storage_key)])
             changed == storage_key \in DOMAIN slots /\ previous_value # slots[storage_key]
         IN SlowReadLoop(Tail(reads), slots, prev,
                [panicked |-> acc.panicked \/ changed,
                 storage_logs |-> MapInsert(acc.storage_logs, storage_key,
                                            NewReadLog(storage_key, previous_value))])

\* for (storage_key, value) in touched_slots: a write log when the value
\* differs from the previous one.
RECURSIVE SlowWriteLoop(_, _, _, _)
SlowWriteLoop(order, slots, prev, storage_logs) ==
    IF order = <<>> THEN storage_logs
    ELSE LET storage_key == Head(order)
             value == slots[storage_key]
             previous_value == UnwrapOrDefault(prev[HashedKey(storage_key)])
         IN SlowWriteLoop(Tail(order), slots, prev,
                IF previous_value # value
                THEN MapInsert(storage_logs, storage_key, NewWriteLog(storage_key, value))
                ELSE storage_logs)

\* What slow makes of the rows it fetched: the log list, and whether its
\* assertion failed on the way.
SlowFromFetched(header, reads, slots, prev) ==
    LET after_reads == SlowReadLoop(Ascending(reads), slots, prev,
            [panicked |-> FALSE, storage_logs |-> EmptyMap])
        storage_logs == SlowWriteLoop(Ascending(DOMAIN slots), slots, prev,
            after_reads.storage_logs)
    IN [result |-> Some([header |-> Unwrap(header),
                         storage_logs |-> IntoValues(storage_logs)]),
        panicked |-> after_reads.panicked]

\* slow is called (new has returned) and its header query answers.
SlowGetL1BatchHeader ==
    /\ loader.pc = "slow"
    /\ loader' = IF ~IsSome(GetL1BatchHeader(loader.l1_batch_number))
                 THEN [LoaderIdle EXCEPT !.pc = "panicked"]
                 ELSE [loader EXCEPT
                          !.pc = "slow_get_protective_reads_for_l1_batch",
                          !.header = GetL1BatchHeader(loader.l1_batch_number)]
    /\ UNCHANGED <<loaded, queries, slow_loaded, tree_metadata, slow_tree_metadata>>
    /\ UNCHANGED storeVars
    /\ UNCHANGED handleVars
    /\ UNCHANGED sideVars

SlowGetProtectiveReads ==
    /\ loader.pc = "slow_get_protective_reads_for_l1_batch"
    /\ loader' = [loader EXCEPT
          !.pc = "slow_get_touched_slots_for_l1_batch",
          !.protective_reads = GetProtectiveReadsForL1Batch(loader.l1_batch_number)]
    /\ UNCHANGED <<loaded, queries, slow_loaded, tree_metadata, slow_tree_metadata>>
    /\ UNCHANGED storeVars
    /\ UNCHANGED handleVars
    /\ UNCHANGED sideVars

SlowGetTouchedSlots ==
    /\ loader.pc = "slow_get_touched_slots_for_l1_batch"
    /\ loader' = [loader EXCEPT
          !.pc = "get_previous_storage_values",
          !.touched_slots = GetTouchedSlotsForL1Batch(loader.l1_batch_number)]
    /\ UNCHANGED <<loaded, queries, slow_loaded, tree_metadata, slow_tree_metadata>>
    /\ UNCHANGED storeVars
    /\ UNCHANGED handleVars
    /\ UNCHANGED sideVars

\* The previous values arrive and the two loops run: the assertion panics,
\* or slow returns and the caller goes on to save the tree.
SlowGetPreviousStorageValues ==
    /\ loader.pc = "get_previous_storage_values"
    /\ LET hashed_keys == {HashedKey(k) :
                              k \in loader.protective_reads \cup DOMAIN loader.touched_slots}
           slow == SlowFromFetched(loader.header, loader.protective_reads,
                       loader.touched_slots,
                       GetPreviousStorageValues(hashed_keys, loader.l1_batch_number))
       IN IF slow.panicked
          THEN /\ loader' = [LoaderIdle EXCEPT !.pc = "panicked"]
               /\ UNCHANGED slow_loaded
          ELSE /\ loader' = [LoaderIdle EXCEPT
                                !.pc = "save",
                                !.l1_batch_number = loader.l1_batch_number]
               /\ slow_loaded' = slow.result
    /\ UNCHANGED <<loaded, queries, tree_metadata, slow_tree_metadata>>
    /\ UNCHANGED storeVars
    /\ UNCHANGED handleVars
    /\ UNCHANGED sideVars

\* ------------------------------------------- assert_log_equivalence
\* The test seals its batches, then calls assert_log_equivalence for batch
\* 0, 1, ... on one tree.  It is one task: between two of its awaits nothing
\* else touches the log store or the handle.
\* assert_log_equivalence(l1_batch_number) up to the first await of new.
AssertLogEquivalence(l1_batch_number) ==
    /\ caller.pc = "idle"
    /\ IsSome(handle)
    /\ l1_batch_number <= latest
    /\ TreeNextL1BatchNumber(Unwrap(handle), rocksdb) = l1_batch_number
    /\ NewGetL1BatchHeader(l1_batch_number, "slow")

\* tree.save().await, once both loads have returned.
SaveBeforeApply ==
    /\ loader.pc = "save"
    /\ outcome.op # "save"
    /\ IsSome(handle)
    /\ TreeNext = loader.l1_batch_number
    /\ save

\* tree.process_l1_batch(l1_batch_with_logs.storage_logs).await
ApplyLoaded ==
    /\ loader.pc = "save"
    /\ outcome.op = "save" /\ outcome.kind = "value"
    /\ process_l1_batch(Unwrap(loaded).storage_logs)

\* let tree_metadata = ...; tree.as_mut().reset()
ResetNoted ==
    /\ loader.pc = "save"
    /\ ProcessReturned
    /\ IsSome(handle)
    /\ TreeNext = loader.l1_batch_number + 1
    /\ tree_metadata' = outcome.value
    /\ handle' = Some(TreeReset(Unwrap(handle)))
    /\ loader' = [loader EXCEPT !.pc = "second"]
    /\ UNCHANGED <<rocksdb, workers, caller, outcome, cancelled>>
    /\ UNCHANGED <<loaded, queries, slow_loaded, slow_tree_metadata>>
    /\ UNCHANGED storeVars
    /\ UNCHANGED sideVars

\* tree.process_l1_batch(slow_l1_batch_with_logs.storage_logs).await
ApplySlow ==
    /\ loader.pc = "second"
    /\ IsSome(handle)
    /\ TreeNext = loader.l1_batch_number
    /\ process_l1_batch(Unwrap(slow_loaded).storage_logs)

\* The assertions that close assert_log_equivalence.
MetadataAgree(fast, slow) ==
    /\ fast.root_hash = slow.root_hash
    /\ fast.rollup_last_leaf_index = slow.rollup_last_leaf_index
    /\ fast.initial_writes = slow.initial_writes
    /\ fast.repeated_writes = slow.repeated_writes
    /\ fast.witness.next_enumeration_index = slow.witness.next_enumeration_index
    /\ fast.witness.merkle_paths = slow.witness.merkle_paths

\* let slow_tree_metadata = ...; the assertions; the function returns.
NoteSlow ==
    /\ loader.pc = "second"
    /\ ProcessReturned
    /\ IsSome(handle)
    /\ TreeNext = loader.l1_batch_number + 1
    /\ slow_tree_metadata' = outcome.value
    /\ loader' = IF MetadataAgree(Unwrap(tree_metadata), Unwrap(outcome.value))
                 THEN LoaderIdle
                 ELSE [LoaderIdle EXCEPT !.pc = "mismatch"]
    /\ UNCHANGED <<loaded, queries, slow_loaded, tree_metadata>>
    /\ UNCHANGED handleVars
    /\ UNCHANGED storeVars
    /\ UNCHANGED sideVars

\* ensure_genesis_state on an empty ledger and AsyncTree::new on an empty store.
InitLedger ==
    /\ handle = Some(NewTree)
    /\ rocksdb = <<>>
    /\ HandleIdle
    /\ SideIdle
    /\ GenesisStore
    /\ ResultsInit

NextLedger ==
    \/ \E slots \in PartialMaps(StorageKeys, Values), reads \in SUBSET StorageKeys :
          /\ queries = <<>>
          /\ SealBatch(slots, reads)
    \/ \E l1_batch_number \in BatchNumbers : AssertLogEquivalence(l1_batch_number)
    \/ NewGetProtectiveReads
    \/ NewGetTouchedSlots
    \/ NewGetL1BatchesForInitialWrites
    \/ SlowGetL1BatchHeader
    \/ SlowGetProtectiveReads
    \/ SlowGetTouchedSlots
    \/ SlowGetPreviousStorageValues
    \/ SaveBeforeApply
    \/ ApplyLoaded
    \/ ResetNoted
    \/ ApplySlow
    \/ NoteSlow
    \/ \E w \in 1..MaxWorkers : WorkerStep(w)
    \/ Join

SpecLedger == InitLedger /\ [][NextLedger]_vars

\* ------------------------------------------------- claims on the loader
\* What the last load returned, and for which batch it was asked.
Requested == queries[1].arg
HasLoaded == queries # <<>> /\ IsSome(loaded)
LoadedLogs == Unwrap(loaded).storage_logs
EntriesFor(logs, key) == {i \in DOMAIN logs : logs[i].key = key}
KindsFor(logs, key) == {logs[i].kind : i \in EntriesFor(logs, key)}

\* A step of the reading task that starts at rest: new is called and its
\* header query answers.
NewCalled == loader.pc = "idle" /\ <<loader, loaded, queries>>' # <<loader, loaded, queries>>

\* C5: load(batch_number) returns None exactly when the log store has no
\* header for the batch when asked; then the only query issued is the
\* header's, and when the header exists the call goes on and the batch it
\* returns carries exactly that header.
C5_NoneIffNoHeader ==
    [][/\ NewCalled =>
             /\ (loader'.pc = "idle") <=> (queries'[1].arg > latest)
             /\ loader'.pc = "idle" =>
                   /\ loaded' = None
                   /\ \A i \in DOMAIN queries' : queries'[i].dal = "get_l1_batch_header"
       /\ (NewInFlight /\ ~NewInFlight') => IsSome(loaded')
       /\ IsSome(loaded') =>
             Unwrap(loaded').header = L1BatchHeader(queries'[1].arg)]_vars

\* C5 witness: a load of a batch without header has returned None, while
\* the store holds protective reads and touched slots of the last batch.
C5_Witness ==
    /\ queries # <<>> /\ loaded = None /\ loader.pc = "idle"
    /\ Requested > latest
    /\ protective_reads[latest] # {} /\ DOMAIN touched_slots[latest] # {}

\* C6: a key that is both a protective read and a touched slot of the batch is
\* exactly one Read entry of the output and never a Write entry, whatever the
\* touched-slots value and the initial-write record.
C6_ReadWinsOverTouched ==
    HasLoaded =>
        \A key \in protective_reads[Requested] \cap DOMAIN touched_slots[Requested] :
            /\ Cardinality(EntriesFor(LoadedLogs, key)) = 1
            /\ KindsFor(LoadedLogs, key) = {"Read"}

\* C6 witness: a loaded batch with such a key, of non-zero touched value.
C6_Witness ==
    /\ HasLoaded
    /\ \E key \in protective_reads[Requested] \cap DOMAIN touched_slots[Requested] :
          /\ touched_slots[Requested][key] # 0
          /\ KindsFor(LoadedLogs, key) = {"Read"}

\* C7: a touched slot that is not a protective read, whose value is zero and
\* whose initial write is unrecorded or recorded in a later batch, has no
\* entry in the output.
C7_SpuriousZeroDropped ==
    HasLoaded =>
        \A key \in (DOMAIN touched_slots[Requested]) \ protective_reads[Requested] :
            (/\ touched_slots[Requested][key] = 0
             /\ (key \notin DOMAIN initial_writes \/ initial_writes[key] > Requested))
            => EntriesFor(LoadedLogs, key) = {}

\* C7 witness: a loaded batch with a zero-valued touched slot whose initial
\* write is recorded in a later batch.
C7_Witness ==
    /\ HasLoaded
    /\ \E key \in (DOMAIN touched_slots[Requested]) \ protective_reads[Requested] :
          /\ touched_slots[Requested][key] = 0
          /\ key \in DOMAIN initial_writes
          /\ initial_writes[key] > Requested
          /\ EntriesFor(LoadedLogs, key) = {}

\* C8: a touched slot that is not a protective read and whose value is
\* non-zero is exactly one Write entry carrying that value, with or without
\* an initial-write record.
C8_NonZeroAlwaysWritten ==
    HasLoaded =>
        \A key \in (DOMAIN touched_slots[Requested]) \ protective_reads[Requested] :
            touched_slots[Requested][key] # 0 =>
                /\ Cardinality(EntriesFor(LoadedLogs, key)) = 1
                /\ \A i \in EntriesFor(LoadedLogs, key) :
                      LoadedLogs[i] = NewWriteLog(key, touched_slots[Requested][key])

\* C8 witness: a loaded batch with a non-zero touched slot that has no
\* initial-write record and is written all the same.
C8_Witness ==
    /\ HasLoaded
    /\ \E key \in (DOMAIN touched_slots[Requested]) \ protective_reads[Requested] :
          /\ touched_slots[Requested][key] # 0
          /\ key \notin DOMAIN initial_writes
          /\ \E i \in DOMAIN LoadedLogs : LoadedLogs[i] = NewWriteLog(key, touched_slots[Requested][key])

\* C11 as stated: the returned log list holds each storage key at most once
\* and is in strictly ascending order of the keys' hashes.
C11_AscendingByKeyHash ==
    HasLoaded =>
        \A i, j \in DOMAIN LoadedLogs :
            i < j => HashedKey(LoadedLogs[i].key) < HashedKey(LoadedLogs[j].key)

\* C11 amended: the returned log list holds each storage key at most once and
\* is in strictly ascending order of the storage keys themselves, the order
\* of the key -> entry map, for every content of the batch.
C11_AscendingByStorageKey ==
    HasLoaded =>
        \A i, j \in DOMAIN LoadedLogs :
            i < j => LoadedLogs[i].key < LoadedLogs[j].key

\* C11 witness: a loaded batch whose list holds a Read and a Write entry.
C11_Witness ==
    /\ HasLoaded
    /\ Len(LoadedLogs) >= 2
    /\ {LoadedLogs[i].kind : i \in DOMAIN LoadedLogs} = {"Read", "Write"}

\* C15: a touched slot that is not a protective read, whose value is zero and
\* whose initial write is recorded in the loaded batch or an earlier one, is
\* exactly one Write entry with value zero.
C15_RecordedZeroWritten ==
    HasLoaded =>
        \A key \in (DOMAIN touched_slots[Requested]) \ protective_reads[Requested] :
            (/\ touched_slots[Requested][key] = 0
             /\ key \in DOMAIN initial_writes
             /\ initial_writes[key] <= Requested)
            => /\ Cardinality(EntriesFor(LoadedLogs, key)) = 1
               /\ \A i \in EntriesFor(LoadedLogs, key) : LoadedLogs[i] = NewWriteLog(key, 0)

\* C15 witness: a loaded batch with a zero-valued touched slot whose initial
\* write is recorded in the loaded batch itself, and its Write entry.
C15_Witness ==
    /\ HasLoaded
    /\ \E key \in (DOMAIN touched_slots[Requested]) \ protective_reads[Requested] :
          /\ touched_slots[Requested][key] = 0
          /\ key \in DOMAIN initial_writes
          /\ initial_writes[key] = Requested
          /\ \E i \in DOMAIN LoadedLogs : LoadedLogs[i] = NewWriteLog(key, 0)

\* The initial-write lookups among the queries of the last load.
InitialWriteLookups ==
    {i \in DOMAIN queries : queries[i].dal = "get_l1_batches_for_initial_writes"}

\* C16: the load issues one initial-write lookup, for the hashed keys of
\* exactly the touched slots that are not protective reads and hold zero.
C16_LookupForRemainingZeroKeys ==
    HasLoaded =>
        /\ Cardinality(InitialWriteLookups) = 1
        /\ \A i \in InitialWriteLookups :
              queries[i].arg =
                  {HashedKey(key) : key \in {k \in (DOMAIN touched_slots[Requested]) \ protective_reads[Requested] :
                                                touched_slots[Requested][k] = 0}}

\* C16 witness: a load whose batch has a zero-valued slot that is a protective
\* read, a non-zero slot, and a zero-valued slot that is looked up.
C16_Witness ==
    /\ HasLoaded
    /\ \E k \in protective_reads[Requested] \cap DOMAIN touched_slots[Requested] : touched_slots[Requested][k] = 0
    /\ \E i \in InitialWriteLookups : queries[i].arg # {}

\* C18: the Read entries of the output are exactly one per protective-read
\* key of the batch, each carrying the zero placeholder.
C18_ReadEntriesAreProtectiveReads ==
    HasLoaded =>
        LET read_entries == {i \in DOMAIN LoadedLogs : LoadedLogs[i].kind = "Read"}
        IN /\ \A key \in protective_reads[Requested] :
                 \E i \in read_entries : LoadedLogs[i] = NewReadLog(key, 0)
           /\ Cardinality(read_entries) = Cardinality(protective_reads[Requested])
           /\ \A i \in read_entries : LoadedLogs[i].key \in protective_reads[Requested]

\* C18 witness: a loaded batch with a protective read that is touched with a
\* non-zero value, one that is not touched, and a Write entry besides.
C18_Witness ==
    /\ HasLoaded
    /\ \E key \in protective_reads[Requested] \cap DOMAIN touched_slots[Requested] :
          /\ touched_slots[Requested][key] # 0
          /\ \E i \in DOMAIN LoadedLogs : LoadedLogs[i] = NewReadLog(key, 0)
    /\ \E i \in DOMAIN LoadedLogs : LoadedLogs[i].kind = "Write"

\* The walks of a key set that visit one key a second time.
WalksWithDuplicate(S) ==
    {Ascending(S) \o <<k>> : k \in S} \cup {<<k>> \o Ascending(S) : k \in S}

\* The log list that given walks of the requested batch's protective reads and
\* touched slots make of its rows, as the store holds them now.
LogsOfWalks(reads_walk, slots_walk) ==
    LET after_reads == ReadLoop(reads_walk,
            [touched_slots |-> touched_slots[Requested], storage_logs |-> EmptyMap])
        l1_batches_for_initial_writes ==
            GetL1BatchesForInitialWrites(HashedKeysForZeroValues(after_reads.touched_slots))
    IN IntoValues(WriteLoop(slots_walk, after_reads.touched_slots,
                            l1_batches_for_initial_writes, Requested,
                            after_reads.storage_logs))

\* C19: whatever the orders in which the load walked the protective reads
\* and the touched slots, its result is the one of the walk in ascending key
\* order, and of every walk that meets a protective read twice.
C19_ResultIndependentOfWalk ==
    HasLoaded =>
        /\ LoadedLogs = LogsOfWalks(Ascending(protective_reads[Requested]),
                                    Ascending(DOMAIN touched_slots[Requested]))
        /\ \A reads_walk \in WalksWithDuplicate(protective_reads[Requested]) :
              LoadedLogs = LogsOfWalks(reads_walk,
                                      Ascending(DOMAIN touched_slots[Requested]))

\* C19 witness: a loaded batch with several touched slots, a protective read
\* and a list of several entries, so that the walks differ.
C19_Witness ==
    /\ HasLoaded
    /\ Cardinality(DOMAIN touched_slots[Requested]) >= 2
    /\ protective_reads[Requested] # {}
    /\ Len(LoadedLogs) >= 2

\* ------------------------------------------------- claims on the handle
\* C1: once an awaited process_l1_batch or save was cancelled, the handle
\* stays empty, and every call on it since has failed with the inconsistent
\* state panic: none returned a value, none runs on a tree.
C1_CancelledHandleFails ==
    cancelled =>
        /\ handle = None
        /\ outcome.kind # "value"
        /\ outcome.kind = "panic" => outcome.msg = INCONSISTENT_MSG
        /\ caller.pc = "awaiting" => ~IsSome(workers[caller.worker].tree)

\* C1 witness: after a cancellation, a later process_l1_batch has failed.
C1_Witness ==
    /\ cancelled
    /\ caller.pc = "idle"
    /\ outcome.op = "process_l1_batch"
    /\ outcome.kind = "panic"
    /\ outcome.msg = INCONSISTENT_MSG

\* C2: a call of process_l1_batch ends either with the metadata returned and
\* the handle holding the tree with the whole batch applied, or failed or
\* cancelled with the handle empty.
C2_ProcessBatchAtomic ==
    (caller.pc = "idle" /\ outcome.op = "process_l1_batch") =>
        \/ /\ outcome.kind = "value"
           /\ IsSome(caller.before)
           /\ LET whole == TreeProcessL1Batch(Unwrap(caller.before), rocksdb,
                                              caller.storage_logs)
              IN /\ handle = Some(whole.tree)
                 /\ outcome.value = Some(whole.metadata)
        \/ /\ outcome.kind \in {"panic", "cancelled"}
           /\ handle = None

\* C2 witness: a two-log batch was applied and its metadata returned.
C2_Witness ==
    /\ caller.pc = "idle"
    /\ outcome.op = "process_l1_batch"
    /\ outcome.kind = "value"
    /\ Len(caller.storage_logs) = 2
    /\ IsSome(handle)

\* C3: the tree is held by the handle or by one blocking task, never by two,
\* and at most one task is running a mutation.
TreeHolders == {w \in 1..MaxWorkers : HoldsTree(w)}
C3_OneOwner ==
    /\ Cardinality(TreeHolders) + (IF IsSome(handle) THEN 1 ELSE 0) <= 1
    /\ Cardinality({w \in 1..MaxWorkers : Alive(w) /\ workers[w].stage = "running"}) <= 1

\* C3 witness: a second call was started on the handle while the task of an
\* earlier, cancelled call is still running with the tree.
C3_Witness ==
    \E w1, w2 \in 1..MaxWorkers :
        /\ w1 # w2
        /\ HoldsTree(w1) /\ ~workers[w1].attached /\ workers[w1].stage = "running"
        /\ Alive(w2) /\ workers[w2].attached

\* C4 as stated: process_l1_batch, save and revert_logs all take the tree out
\* of the slot, so the tree and its store never change while the slot holds it.
C4_AllMutationsTakeTreeOut ==
    [][(rocksdb' # rocksdb \/ (IsSome(handle) /\ IsSome(handle') /\ handle' # handle))
        => handle = None]_vars

\* C4 amended: while process_l1_batch or save is in flight the slot is empty,
\* and after either completes normally the slot holds the tree again;
\* revert_logs runs on the tree in the slot, which holds it afterwards too.
C4_AwaitedMutationsTakeTreeOut ==
    /\ caller.pc = "awaiting" => handle = None
    /\ (caller.pc = "idle" /\ outcome.kind = "value"
        /\ outcome.op \in {"process_l1_batch", "save", "revert_logs"}) => IsSome(handle)

\* C4 witness: a save completed normally and the slot holds the tree again.
C4_Witness ==
    /\ caller.pc = "idle"
    /\ outcome.op = "save"
    /\ outcome.kind = "value"
    /\ IsSome(handle)
    /\ rocksdb # <<>>

AccessorOps == {"is_empty", "next_l1_batch_number", "root_hash"}

\* C13: a call of is_empty, next_l1_batch_number or root_hash on a handle
\* that holds the tree returns a value at once: the handle still holds the
\* same tree, the backing store is unchanged, no blocking task was spawned
\* and the caller did not suspend.
C13_AccessorsArePureReads ==
    [][(/\ caller.pc = "idle" /\ IsSome(handle)
        /\ \A w \in 1..MaxWorkers : ~Alive(w)
        /\ outcome'.op \in AccessorOps)
       => (/\ handle' = handle
           /\ rocksdb' = rocksdb
           /\ \A w \in 1..MaxWorkers : workers'[w].stage = "free"
           /\ caller'.pc = "idle"
           /\ outcome'.kind = "value")]_vars

\* C13 witness: root_hash has returned on a handle whose tree has flushed
\* and unflushed versions.
C13_Witness ==
    /\ caller.pc = "idle"
    /\ outcome.op = "root_hash" /\ outcome.kind = "value"
    /\ IsSome(handle)
    /\ rocksdb # <<>>
    /\ Unwrap(handle).patch # <<>>

\* The handle is empty and no call that took a tree out of it is in flight.
Poisoned ==
    \/ caller.pc = "idle" /\ handle = None
    \/ caller.pc = "awaiting" /\ caller.before = None

\* C20: a process_l1_batch or save whose blocking call panicked fails in the
\* caller and leaves the handle empty; and an empty handle stays empty
\* through every later call, which never puts a tree back.
C20_PoisonedIsAbsorbing ==
    [][/\ (/\ caller.pc = "awaiting" /\ caller'.pc = "idle"
           /\ workers[caller.worker].stage = "panicked"
           /\ outcome'.kind # "cancelled")
          => (outcome'.kind = "panic" /\ handle' = None)
       /\ Poisoned => (Poisoned' /\ handle' = None)]_vars

\* C20 witness: the handle was emptied by a failure of the mutation, not by
\* a cancellation, and a later process_l1_batch failed on the empty handle.
C20_Witness ==
    /\ ~cancelled
    /\ handle = None
    /\ caller.pc = "idle"
    /\ outcome.op = "process_l1_batch"
    /\ outcome.kind = "panic"
    /\ outcome.msg = INCONSISTENT_MSG

\* A blocking task whose caller was cancelled, still holding the tree.
Orphan(w) == HoldsTree(w) /\ ~workers[w].attached

\* C21: cancelling an awaited process_l1_batch or save leaves its blocking
\* task as it was, tree included; the task keeps the tree until its own
\* closure ends; and every write to the backing store after a cancellation
\* is the flush of such a task, made while the handle is empty.
C21_CancelDoesNotStopWorker ==
    [][/\ (/\ caller.pc = "awaiting" /\ outcome'.kind = "cancelled"
           /\ workers[caller.worker].stage \in {"spawned", "running"})
          => (/\ workers'[caller.worker].stage = workers[caller.worker].stage
              /\ workers'[caller.worker].tree = workers[caller.worker].tree
              /\ workers'[caller.worker].storage_logs =
                    workers[caller.worker].storage_logs
              /\ rocksdb' = rocksdb)
       /\ \A w \in 1..MaxWorkers :
             Orphan(w) =>
                IF workers'[w].stage = "free"
                THEN workers[w].stage = "running"
                ELSE IsSome(workers'[w].tree)
       /\ (cancelled /\ rocksdb' # rocksdb)
          => (/\ handle = None
              /\ \E w \in 1..MaxWorkers :
                    /\ Orphan(w)
                    /\ workers[w].op = "save"
                    /\ rocksdb' = TreeSave(Unwrap(workers[w].tree), rocksdb).db
                    /\ workers'[w].stage = "free")]_vars

\* C21 witness: the save was cancelled and the handle is empty, while its
\* task runs on, holding a tree whose versions are not in the store yet.
C21_Witness ==
    /\ cancelled
    /\ handle = None
    /\ caller.pc = "idle"
    /\ outcome.op = "save" /\ outcome.kind = "cancelled"
    /\ \E w \in 1..MaxWorkers :
          /\ Orphan(w)
          /\ workers[w].op = "save"
          /\ workers[w].stage = "running"
          /\ Unwrap(workers[w].tree).patch # <<>>

\* ------------------------------------------------- claims on the ledger
\* The last assert_log_equivalence got as far as its closing assertions.
Compared ==
    /\ loader.pc \in {"idle", "mismatch"}
    /\ IsSome(tree_metadata) /\ IsSome(slow_tree_metadata)
\* Both loads of the last assert_log_equivalence have returned.
BothLoaded ==
    /\ loader.pc \in {"save", "second", "idle", "mismatch"}
    /\ IsSome(loaded) /\ IsSome(slow_loaded)
\* Batch `number` writes again what the batch before it wrote, all non-zero.
IsCopy(number) ==
    /\ number >= 1
    /\ DOMAIN touched_slots[number] # {}
    /\ touched_slots[number] = touched_slots[number - 1]
    /\ \A k \in DOMAIN touched_slots[number] : touched_slots[number][k] # 0

\* C9: on a history that satisfies the deduplication contract, the loader's
\* logs and the reference's logs, applied to the same tree, give the same
\* root hash, last leaf index, initial writes, repeated writes and witness.
C9_LoaderEquivalentToSlow ==
    Compared =>
        LET fast == Unwrap(tree_metadata)
            slow == Unwrap(slow_tree_metadata)
        IN /\ fast.root_hash = slow.root_hash
           /\ fast.rollup_last_leaf_index = slow.rollup_last_leaf_index
           /\ fast.initial_writes = slow.initial_writes
           /\ fast.repeated_writes = slow.repeated_writes
           /\ fast.witness.next_enumeration_index = slow.witness.next_enumeration_index
           /\ fast.witness.merkle_paths = slow.witness.merkle_paths

\* C9 witness: the two were compared on a batch where the loader emitted a
\* Write entry for a key the reference left out.
C9_Witness ==
    /\ Compared
    /\ \E i \in DOMAIN LoadedLogs :
          /\ LoadedLogs[i].kind = "Write"
          /\ EntriesFor(Unwrap(slow_loaded).storage_logs, LoadedLogs[i].key) = {}

\* The root hash of the tree as of the batch before the compared one.
RootBeforeCompared == RootHashOf(rocksdb[Requested])

\* C10 as stated: when a batch writes again the non-zero pairs of the batch
\* before it, the loader's list has no Write entry and the root hash stays.
C10_CopiedBatchHasNoWrites ==
    (Compared /\ IsCopy(Requested)) =>
        /\ \A i \in DOMAIN LoadedLogs : LoadedLogs[i].kind # "Write"
        /\ Unwrap(tree_metadata).root_hash = RootBeforeCompared

\* C10 amended: the loader's list holds a Write entry with the same value for
\* every copied key that is not a protective read of the batch and a Read
\* entry for those that are; applied to the tree they allocate and update
\* nothing, and the root hash stays that of the batch before.
C10_CopiedBatchIsNoOpOnTree ==
    (Compared /\ IsCopy(Requested)) =>
        /\ \A key \in DOMAIN touched_slots[Requested] :
              \E i \in DOMAIN LoadedLogs :
                  LoadedLogs[i] = IF key \in protective_reads[Requested]
                                  THEN NewReadLog(key, 0)
                                  ELSE NewWriteLog(key, touched_slots[Requested][key])
        /\ Unwrap(tree_metadata).initial_writes = <<>>
        /\ Unwrap(tree_metadata).repeated_writes = <<>>
        /\ Unwrap(tree_metadata).root_hash = RootBeforeCompared

\* C10 witness: batch 2 copies batch 1, and its Write entries were applied.
C10_Witness ==
    /\ Compared /\ IsCopy(Requested)
    /\ Requested = 2
    /\ \E i \in DOMAIN LoadedLogs : LoadedLogs[i].kind = "Write"

\* C17: for a batch without protective reads in which every touched slot's
\* value differs from the key's previous value, on a ledger whose
\* initial-write records follow the write history, the loader returns what
\* the naive reference returns: the same header and the same log list.
C17_LoaderEqualsSlowOnGenuineWrites ==
    (/\ BothLoaded
     /\ protective_reads[Requested] = {}
     /\ \A k \in DOMAIN touched_slots[Requested] :
           touched_slots[Requested][k] # UnwrapOrDefault(PreviousValue(k, Requested)))
    => loaded = slow_loaded

\* C17 witness: such a batch that sets one key back to zero and writes a
\* non-zero value to another, loaded both ways.
C17_Witness ==
    /\ BothLoaded
    /\ protective_reads[Requested] = {}
    /\ \A k \in DOMAIN touched_slots[Requested] :
          touched_slots[Requested][k] # UnwrapOrDefault(PreviousValue(k, Requested))
    /\ \E k \in DOMAIN touched_slots[Requested] : touched_slots[Requested][k] = 0
    /\ \E k \in DOMAIN touched_slots[Requested] : touched_slots[Requested][k] # 0
    /\ Len(Unwrap(slow_loaded).storage_logs) >= 2
    /\ loaded = slow_loaded

\* ------------------------------------------------ claims on the Delayer
\* C12 as stated: every call of Delayer::wait with an observer wired adds
\* exactly one pair to the channel, and leaves the handle and the store alone.
C12_EveryWaitPublishes ==
    [][(wait /\ observer = "open")
       => (/\ Len(delay_notifier') = Len(delay_notifier) + 1
           /\ UNCHANGED <<handle, rocksdb>>)]_vars

\* C12 amended: a call of Delayer::wait leaves the handle and the store
\* alone; with an observer wired and the tree in the handle, it has added
\* exactly the pair (next_l1_batch_number, root_hash) of that tree to the
\* channel when the caller is suspended in the sleep; in a test build on an
\* empty handle it panics, adds nothing and does not sleep.
C12_WaitPublishesOnHeldTree ==
    [][wait
       => (/\ UNCHANGED <<handle, rocksdb>>
           /\ (observer = "open" /\ IsSome(handle))
              => (/\ delay_notifier' = Append(delay_notifier,
                        <<TreeNextL1BatchNumber(Unwrap(handle), rocksdb),
                          TreeRootHash(Unwrap(handle), rocksdb)>>)
                  /\ caller'.pc = "sleeping")
           /\ (observer # "absent" /\ handle = None)
              => (/\ outcome'.kind = "panic"
                  /\ delay_notifier' = delay_notifier
                  /\ caller'.pc = "idle"))]_vars

\* C12 witness: the caller sleeps, and the channel of a live observer holds
\* the pair of a tree with a version that is not flushed yet.
C12_Witness ==
    /\ caller.pc = "sleeping"
    /\ observer = "open"
    /\ IsSome(handle)
    /\ Unwrap(handle).patch # <<>>
    /\ delay_notifier = <<Observation(Unwrap(handle), rocksdb)>>

\* --------------------------------------- claims on the revert scenario
\* C14: revert_logs(KeepBatch) after batches 0..LastBatch leaves the handle
\* holding a tree with the next batch number and root hash it had after
\* batch KeepBatch, and each later batch applied again with the same logs
\* gives the root hash of its first application, batch LastBatch included.
C14_ReplayAfterRevertMatches ==
    /\ (caller.pc = "idle" /\ outcome.op = "revert_logs")
       => (outcome.kind = "value" /\ IsSome(handle))
    /\ \A i \in DOMAIN seen_after_revert :
          seen_after_revert[i] = applied_batches[KeepBatch + i].seen

\* C14 witness: batch LastBatch was applied again, and the root hashes after
\* batches KeepBatch, LastBatch - 1 and LastBatch differ from one another.
C14_Witness ==
    /\ Len(seen_after_revert) = LastBatch - KeepBatch + 1
    /\ seen_after_revert[Len(seen_after_revert)] = applied_batches[LastBatch + 1].seen
    /\ applied_batches[KeepBatch + 1].seen[2] # applied_batches[LastBatch + 1].seen[2]
    /\ applied_batches[LastBatch].seen[2] # applied_batches[LastBatch + 1].seen[2]
    /\ applied_batches[KeepBatch + 1].seen[2] # applied_batches[LastBatch].seen[2]

====
